---- MODULE Spec2Model ----
(***************************************************************************)
(* Model of the auto dealership assistant: the inventory store and the     *)
(* booking ledger (KnowledgeBase), the tools the assistant exposes         *)
(* (DealershipTools), the booking agent (BookingAgent), the conversation   *)
(* agent with its single buffer memory (ConversationAgent), the            *)
(* orchestrator (DealershipAssistant) and the HTTP handlers that drive it. *)
(***************************************************************************)
EXTENDS Integers, Sequences, FiniteSets, TLC

VARIABLES
    data,          \* KnowledgeBase.data: the loaded catalog document
    bookings,      \* KnowledgeBase.bookings: the list of TestDriveBooking
    now,           \* the wall clock read by datetime.now(): [day, sec]
    chat_history,  \* ConversationAgent.memory: the one buffer of all turns
    thr,           \* worker threads of asyncio.to_thread running process_text
    result         \* what the last directly called operation returned

vars == <<data, bookings, now, chat_history, thr, result>>

(***************************************************************************)
(* Bounds of the model.                                                    *)
(***************************************************************************)
MaxSec == 1        \* the clock stops ticking after this many seconds
MaxDay == 1        \* and after this many midnights
MaxBookings == 2   \* bookings the ledger is allowed to grow to
MaxTurns == 2      \* completed chat turns the buffer memory may hold
MaxToolCalls == 1  \* tool calls the oracle is followed through in one turn
MaxFrames == 3     \* frames the handler of one connection is followed through

(***************************************************************************)
(* Python's None, for Optional[str] values and for Optional[dict] values.  *)
(***************************************************************************)
NoneStr == "<None>"
None == [py |-> "None"]

(***************************************************************************)
(* The catalog document.  sedan_001 carries every field; suv_001 has no    *)
(* test_drive_duration_minutes and is flagged unavailable.                 *)
(***************************************************************************)
Catalog ==
    [ dealership |-> [name |-> "Premium Auto Dealership"],
      working_hours |-> [monday |-> "9:00-18:00"],
      inventory |-> <<
        [id |-> "sedan_001", brand |-> "Premium", model |-> "Elegance 2024",
         year |-> 2024, type |-> "Sedan", price_range |-> "$35,000",
         features |-> <<"Leather seats">>, fuel_type |-> "Hybrid",
         availability |-> TRUE, test_drive_duration_minutes |-> 30],
        [id |-> "suv_001", brand |-> "Trail", model |-> "Explorer Pro",
         year |-> 2024, type |-> "SUV", price_range |-> "$45,000",
         features |-> <<"Third row">>, fuel_type |-> "Petrol",
         availability |-> FALSE],
        [id |-> "sport_001", brand |-> "Premium", model |-> "Veloce",
         year |-> 2023, type |-> "Sport Sedan", price_range |-> "$55,000",
         features |-> <<"Sport mode">>, fuel_type |-> "Petrol",
         availability |-> TRUE] >> ]

(***************************************************************************)
(* The files KnowledgeBase can be pointed at: no file; a file that is not  *)
(* JSON; a JSON object without the vehicle list; a catalog one of whose    *)
(* cars has no brand; the catalog above.                                   *)
(***************************************************************************)
Documents ==
    { [name |-> "missing", exists |-> FALSE, parses |-> FALSE],
      [name |-> "garbage", exists |-> TRUE, parses |-> FALSE],
      [name |-> "no_inventory", exists |-> TRUE, parses |-> TRUE,
       json |-> [dealership |-> [name |-> "Premium Auto Dealership"]]],
      [name |-> "no_brand", exists |-> TRUE, parses |-> TRUE,
       json |-> [dealership |-> [name |-> "Premium Auto Dealership"],
                 working_hours |-> [monday |-> "9:00-18:00"],
                 inventory |-> <<
                   [id |-> "sedan_001", model |-> "Elegance 2024",
                    year |-> 2024, type |-> "Sedan",
                    price_range |-> "$35,000",
                    features |-> <<"Leather seats">>,
                    fuel_type |-> "Hybrid", availability |-> TRUE] >>]],
      [name |-> "good", exists |-> TRUE, parses |-> TRUE, json |-> Catalog] }

\* No KnowledgeBase has been constructed.
Unloaded == [py |-> "unloaded"]

\* Inputs of the operations.
CarIds == {"sedan_001", "suv_001", "car_999"}
Times == {"10:00", "14:00"}
OracleTimes == {"10:00"}
Names == {"Alice"}
Phones == {"555-0100"}
Sessions == {"A", "B"}
Threads == {"w1", "w2"}
Messages == {"hello"}

(***************************************************************************)
(* Date strings and datetime.fromisoformat.  A string the table does not   *)
(* hold makes fromisoformat raise ValueError.  Days are counted from the   *)
(* day the process starts (day 0).                                         *)
(***************************************************************************)
IsoDays == [s \in {"2026-11-03", "2026-12-04"} |->
               IF s = "2026-11-03" THEN 0 ELSE 31]
DateStrs == {"2026-11-03", "2026-12-04", "tomorrow"}

\* datetime.fromisoformat(date_str) raises ValueError
raises_ValueError(date_str) == date_str \notin DOMAIN IsoDays

\* datetime.fromisoformat(date_str).date(), where it does not raise
fromisoformat(date_str) == IsoDays[date_str]

WindowDays == 30

(***************************************************************************)
(* KnowledgeBase                                                           *)
(***************************************************************************)
\* d.get(key, default)
dict_get(d, key, default) == IF key \in DOMAIN d THEN d[key] ELSE default

\* self.data.get("inventory", [])
Inventory == dict_get(data, "inventory", <<>>)

\* KnowledgeBase.__init__ / _load_inventory: open raises FileNotFoundError
\* (raised again with a message), json.load raises JSONDecodeError (not
\* caught); whatever json.load returns becomes self.data.
load_inventory(doc) ==
    IF ~doc.exists THEN [raised |-> TRUE, error |-> "FileNotFoundError"]
    ELSE IF ~doc.parses THEN [raised |-> TRUE, error |-> "JSONDecodeError"]
    ELSE [raised |-> FALSE, error |-> "", data |-> doc.json]

\* get_car_details that stops one car before the end of the inventory.
get_car_details_short_loop(car_id) ==
    LET hits == {i \in 1..(Len(Inventory) - 1) : Inventory[i].id = car_id}
    IN IF hits = {} THEN None
       ELSE Inventory[CHOOSE i \in hits : \A j \in hits : i <= j]

\* get_car_details: the first car of the catalog with that id, or None.
get_car_details(car_id) ==
    LET hits == {i \in DOMAIN Inventory : Inventory[i].id = car_id}
    IN IF hits = {} THEN None
       ELSE Inventory[CHOOSE i \in hits : \A j \in hits : i <= j]

\* check_time_availability that also reads the time of the clock: a slot
\* of today is free only in the first second.
check_time_availability_by_clock(date_str, time_str, today) ==
    /\ ~raises_ValueError(date_str)
    /\ fromisoformat(date_str) >= today
    /\ fromisoformat(date_str) - today <= WindowDays
    /\ fromisoformat(date_str) = today => now.sec = 0

\* check_time_availability with the window one day short (>= for >).
check_time_availability_short_window(date_str, time_str, today) ==
    /\ ~raises_ValueError(date_str)
    /\ fromisoformat(date_str) >= today
    /\ fromisoformat(date_str) - today < WindowDays

\* check_time_availability, with `today` the date datetime.now() gives.  The
\* code reads the clock twice within the call; both reads give the same date
\* here (a call does not straddle midnight).  time_str is not read.
check_time_availability(date_str, time_str, today) ==
    LET requested_date == fromisoformat(date_str)
    IN IF raises_ValueError(date_str) THEN FALSE
       ELSE IF requested_date < today THEN FALSE
       ELSE IF requested_date - today > WindowDays THEN FALSE
       ELSE TRUE

\* f"TD-{int(datetime.now().timestamp())}"
booking_id_now == <<"TD", now.sec>>

\* A duration that is the default whatever the car says.
duration_of_default(car) == 60

\* car.get("test_drive_duration_minutes", 60)
duration_of(car) ==
    IF "test_drive_duration_minutes" \in DOMAIN car
    THEN car.test_drive_duration_minutes ELSE 60

\* car['brand'] and car['model'] raise KeyError for a car without them.
has_label(car) == {"brand", "model"} \subseteq DOMAIN car

\* f"{car['brand']} {car['model']}"
label_of(car) == <<car.brand, " ", car.model>>

\* TestDriveBooking(...): booking_status and booking_timestamp take defaults.
TestDriveBooking(id, name, phone, email, label, car_id, date, time, dur) ==
    [ booking_id |-> id, customer_name |-> name, customer_phone |-> phone,
      customer_email |-> email, car_model |-> label, car_id |-> car_id,
      preferred_date |-> date, preferred_time |-> time,
      test_drive_duration |-> dur, booking_status |-> "confirmed",
      booking_timestamp |-> now ]

\* book_test_drive that puts the booking at the head of the list.
kb_book_test_drive_at_head(ledger, booking) == <<booking>> \o ledger

\* KnowledgeBase.book_test_drive: append, return True.
kb_book_test_drive(ledger, booking) == Append(ledger, booking)

Init ==
    /\ data = Catalog
    /\ bookings = <<>>
    /\ now = [day |-> 0, sec |-> 0]
    /\ chat_history = <<>>
    /\ thr = [t \in Threads |-> [pc |-> "idle"]]
    /\ result = [op |-> "init"]

\* Time passes: a second, and with it possibly midnight.
Tick ==
    /\ now.sec < MaxSec
    /\ \E midnight \in BOOLEAN :
         /\ midnight => now.day < MaxDay
         /\ now' = [day |-> now.day + (IF midnight THEN 1 ELSE 0),
                    sec |-> now.sec + 1]
    /\ UNCHANGED <<data, bookings, chat_history, thr, result>>

\* book_test_drive that does not ask whether the time is available.
tool_book_test_drive_unchecked(name, phone, car_id, preferred_date, preferred_time) ==
    LET car == get_car_details(car_id)
        booking == TestDriveBooking(booking_id_now, name, phone, NoneStr,
                       label_of(car), car_id, preferred_date, preferred_time,
                       duration_of(car))
    IN IF car = None
       THEN [out |-> "car_not_found", ledger |-> bookings]
       ELSE IF ~has_label(car)
       THEN [out |-> "raised", ledger |-> bookings]
       ELSE [out |-> "booked", ledger |-> kb_book_test_drive(bookings, booking)]

(***************************************************************************)
(* DealershipTools.book_test_drive: the observation handed back to the     *)
(* oracle and the ledger the call leaves behind.                           *)
(***************************************************************************)
tool_book_test_drive(name, phone, car_id, preferred_date, preferred_time) ==
    LET car == get_car_details(car_id)
        booking == TestDriveBooking(booking_id_now, name, phone, NoneStr,
                       label_of(car), car_id, preferred_date, preferred_time,
                       duration_of(car))
    IN IF car = None
       THEN [out |-> "car_not_found", ledger |-> bookings]
       ELSE IF ~check_time_availability(preferred_date, preferred_time, now.day)
       THEN [out |-> "not_available", ledger |-> bookings]
       ELSE IF ~has_label(car)
       THEN [out |-> "raised", ledger |-> bookings]
       ELSE [out |-> "booked", ledger |-> kb_book_test_drive(bookings, booking)]

(***************************************************************************)
(* POST /api/v1/bookings (create_booking): the HTTP status and the ledger  *)
(* the request leaves behind.                                              *)
(***************************************************************************)
\* The `detail` of the HTTPException a request ends with.
CarNotFound == "Car not found"
TimeNotAvailable == "Requested time is not available"

\* create_booking that stores the booking before it checks the time.
api_create_booking_store_first(request) ==
    LET car == get_car_details(request.car_id)
        booking == TestDriveBooking(booking_id_now, request.customer_name,
                       request.customer_phone, request.customer_email,
                       label_of(car), request.car_id, request.preferred_date,
                       request.preferred_time, duration_of(car))
    IN IF car = None
       THEN [status |-> 404, detail |-> CarNotFound, ledger |-> bookings]
       ELSE IF ~check_time_availability(request.preferred_date,
                                        request.preferred_time, now.day)
       THEN [status |-> 400, detail |-> TimeNotAvailable,
             ledger |-> kb_book_test_drive(bookings, booking)]
       ELSE [status |-> 200, detail |-> "",
             ledger |-> kb_book_test_drive(bookings, booking)]

\* create_booking that checks the time before it looks the car up.
api_create_booking_time_first(request) ==
    LET car == get_car_details(request.car_id)
        booking == TestDriveBooking(booking_id_now, request.customer_name,
                       request.customer_phone, request.customer_email,
                       label_of(car), request.car_id, request.preferred_date,
                       request.preferred_time, duration_of(car))
    IN IF ~check_time_availability(request.preferred_date,
                                   request.preferred_time, now.day)
       THEN [status |-> 400, detail |-> TimeNotAvailable, ledger |-> bookings]
       ELSE IF car = None
       THEN [status |-> 404, detail |-> CarNotFound, ledger |-> bookings]
       ELSE [status |-> 200, detail |-> "",
             ledger |-> kb_book_test_drive(bookings, booking)]

\* The detail of the 500 the handler's `except Exception` answers with.
ErrorCreatingBooking == "Error creating booking"

api_create_booking(request) ==
    LET car == get_car_details(request.car_id)
        booking == TestDriveBooking(booking_id_now, request.customer_name,
                       request.customer_phone, request.customer_email,
                       label_of(car), request.car_id, request.preferred_date,
                       request.preferred_time, duration_of(car))
    IN IF car = None
       THEN [status |-> 404, detail |-> CarNotFound, ledger |-> bookings]
       ELSE IF ~check_time_availability(request.preferred_date,
                                        request.preferred_time, now.day)
       THEN [status |-> 400, detail |-> TimeNotAvailable, ledger |-> bookings]
       ELSE IF ~has_label(car)
       THEN [status |-> 500, detail |-> ErrorCreatingBooking,
             ledger |-> bookings]
       ELSE [status |-> 200, detail |-> "",
             ledger |-> kb_book_test_drive(bookings, booking)]

(***************************************************************************)
(* BookingAgent.confirm_booking: booking_details is a dict, a function     *)
(* from the keys it holds to strings.                                      *)
(***************************************************************************)
required_fields ==
    {"customer_name", "customer_phone", "car_id", "preferred_date",
     "preferred_time"}

\* pydantic's check of the fields declared `str`: None is refused.
validates(booking_details) ==
    \A k \in required_fields : booking_details[k] # NoneStr

agent_confirm_booking(booking_details) ==
    LET booking == TestDriveBooking(booking_id_now,
                       booking_details["customer_name"],
                       booking_details["customer_phone"], NoneStr,
                       <<dict_get(booking_details, "car_model", "")>>,
                       booking_details["car_id"],
                       booking_details["preferred_date"],
                       booking_details["preferred_time"],
                       dict_get(booking_details, "duration", 60))
    IN IF ~(required_fields \subseteq DOMAIN booking_details)
       THEN [ok |-> FALSE, raised |-> FALSE, ledger |-> bookings]
       ELSE IF ~validates(booking_details)
       THEN [ok |-> FALSE, raised |-> TRUE, ledger |-> bookings]
       ELSE [ok |-> TRUE, raised |-> FALSE,
             ledger |-> kb_book_test_drive(bookings, booking)]

\* The requests and dicts the operations are called with.
BookingRequests ==
    [ customer_name : Names, customer_phone : Phones,
      customer_email : {NoneStr}, car_id : CarIds,
      preferred_date : DateStrs, preferred_time : Times ]

\* A complete dict, and the same dict with one required key left out.
details_of(name, phone, car_id, date, time) ==
    [k \in required_fields |->
        CASE k = "customer_name" -> name
          [] k = "customer_phone" -> phone
          [] k = "car_id" -> car_id
          [] k = "preferred_date" -> date
          [] k = "preferred_time" -> time]

without_key(d, key) == [k \in DOMAIN d \ {key} |-> d[k]]

\* The dicts confirm_booking is called with: a bookable one, one for a
\* date beyond the window, one for a car the catalog lacks, one whose date
\* does not parse, one that lacks a required key, and one whose name is None.
BookingDetails ==
    { details_of("Alice", "555-0100", "sedan_001", "2026-11-03", "10:00"),
      details_of("Alice", "555-0100", "sedan_001", "2026-12-04", "10:00"),
      details_of("Alice", "555-0100", "car_999", "2026-11-03", "10:00"),
      details_of("Alice", "555-0100", "sedan_001", "tomorrow", "10:00"),
      without_key(details_of("Alice", "555-0100", "sedan_001", "2026-11-03",
                             "10:00"), "customer_phone"),
      details_of(NoneStr, "555-0100", "sedan_001", "2026-11-03", "10:00") }

(***************************************************************************)
(* References to Python objects: get_bookings hands out the list object    *)
(* that KnowledgeBase.bookings names, list_bookings a fresh list of dicts. *)
(***************************************************************************)
BookingsRef == "KnowledgeBase.bookings"

\* What a holder of `value` reads through it.
contents_of(value) == IF value = BookingsRef THEN bookings ELSE value

\* DealershipAssistant.get_bookings
get_bookings == BookingsRef

\* GET /api/v1/bookings: [b.dict() for b in assistant.get_bookings()]
api_list_bookings ==
    LET bs == contents_of(get_bookings)
    IN [bookings |-> [i \in DOMAIN bs |-> bs[i]], count |-> Len(bs)]

(***************************************************************************)
(* Operations called directly: HTTP handlers running on the event loop and *)
(* methods of the assistant's objects.                                     *)
(***************************************************************************)
\* create_booking that takes the booked car out of the offer.
CreateBookingTakesCar ==
    \E request \in BookingRequests :
      LET r == api_create_booking(request)
      IN /\ Len(r.ledger) <= MaxBookings
         /\ bookings' = r.ledger
         /\ result' = [op |-> "create_booking", status |-> r.status,
                       detail |-> r.detail, car_id |-> request.car_id,
                       date |-> request.preferred_date]
         /\ data' = IF r.status # 200 THEN data
                    ELSE [data EXCEPT !.inventory =
                            [i \in DOMAIN Inventory |->
                               IF Inventory[i].id = request.car_id
                               THEN [Inventory[i] EXCEPT !.availability = FALSE]
                               ELSE Inventory[i]]]
         /\ UNCHANGED <<now, chat_history, thr>>

CreateBooking ==
    \E request \in BookingRequests :
      LET r == api_create_booking(request)
      IN /\ Len(r.ledger) <= MaxBookings
         /\ bookings' = r.ledger
         /\ result' = [op |-> "create_booking", status |-> r.status,
                       detail |-> r.detail, car_id |-> request.car_id,
                       date |-> request.preferred_date]
         /\ UNCHANGED <<data, now, chat_history, thr>>

ConfirmBooking ==
    \E booking_details \in BookingDetails :
      LET r == agent_confirm_booking(booking_details)
      IN /\ Len(r.ledger) <= MaxBookings
         /\ bookings' = r.ledger
         /\ result' = [op |-> "confirm_booking", ok |-> r.ok,
                       raised |-> r.raised]
         /\ UNCHANGED <<data, now, chat_history, thr>>

GetBookings ==
    /\ result' = [op |-> "get_bookings", value |-> get_bookings]
    /\ UNCHANGED <<data, bookings, now, chat_history, thr>>

ListBookings ==
    /\ result' = [op |-> "list_bookings", count |-> api_list_bookings.count]
    /\ UNCHANGED <<data, bookings, now, chat_history, thr>>

CheckTimeAvailability ==
    \E date_str \in DateStrs, time_str \in Times :
      /\ result' = [op |-> "check_time_availability", date |-> date_str,
                    time |-> time_str, today |-> now.day,
                    value |-> check_time_availability(date_str, time_str,
                                                      now.day)]
      /\ UNCHANGED <<data, bookings, now, chat_history, thr>>

(***************************************************************************)
(* Strings as Python compares them: the characters of the strings the      *)
(* searches meet, str.lower character by character, and `sub in s`.        *)
(***************************************************************************)
chars(s) ==
    CASE s = "Sedan" -> <<"S", "e", "d", "a", "n">>
      [] s = "SUV" -> <<"S", "U", "V">>
      [] s = "Sport Sedan" ->
            <<"S", "p", "o", "r", "t", " ", "S", "e", "d", "a", "n">>
      [] s = "sedan" -> <<"s", "e", "d", "a", "n">>
      [] s = "SEDAN" -> <<"S", "E", "D", "A", "N">>
      [] s = "suv" -> <<"s", "u", "v">>
      [] s = "s" -> <<"s">>
      [] s = "truck" -> <<"t", "r", "u", "c", "k">>
      [] s = "Premium" -> <<"P", "r", "e", "m", "i", "u", "m">>
      [] s = "Trail" -> <<"T", "r", "a", "i", "l">>
      [] s = "premium" -> <<"p", "r", "e", "m", "i", "u", "m">>
      [] s = "trail" -> <<"t", "r", "a", "i", "l">>
      [] s = "" -> <<>>

UpperToLower ==
    [c \in {"S", "U", "V", "E", "D", "A", "N", "P", "T"} |->
        CASE c = "S" -> "s" [] c = "U" -> "u" [] c = "V" -> "v"
          [] c = "E" -> "e" [] c = "D" -> "d" [] c = "A" -> "a"
          [] c = "N" -> "n" [] c = "P" -> "p" [] c = "T" -> "t"]

\* A lower that leaves the string as it is.
lower_unchanged(cs) == cs

\* str.lower
lower(cs) ==
    [i \in DOMAIN cs |->
        IF cs[i] \in DOMAIN UpperToLower THEN UpperToLower[cs[i]] ELSE cs[i]]

\* sub in s
contains(sub, s) ==
    \E off \in 0..(Len(s) - Len(sub)) :
        SubSeq(s, off + 1, off + Len(sub)) = sub

\* The car types the searches are called with, and the ids looked up.
TypeQueries == {"sedan", "SEDAN", "suv", "SUV", "s", "truck", ""}
LookupIds == CarIds \cup {"sport_001"}

(***************************************************************************)
(* The read operations of KnowledgeBase.                                   *)
(***************************************************************************)
\* The loop of search_cars_by_type from car i on, `results` so far.
RECURSIVE search_from(_, _, _)
search_from(car_type, i, results) ==
    IF i > Len(Inventory) THEN results
    ELSE search_from(car_type, i + 1,
            IF contains(lower(chars(car_type)),
                        lower(chars(dict_get(Inventory[i], "type", ""))))
            THEN Append(results, Inventory[i]) ELSE results)

search_cars_by_type(car_type) == search_from(car_type, 1, <<>>)

\* [car for car in inventory if car.get("availability", False)]
get_available_cars ==
    SelectSeq(Inventory, LAMBDA car : dict_get(car, "availability", FALSE))

\* {**dealership, "working_hours": working_hours}
get_dealership_info ==
    [k \in DOMAIN data.dealership \cup {"working_hours"} |->
        IF k = "working_hours" THEN data.working_hours
        ELSE data.dealership[k]]

\* CarDetails(**car): the declared fields are kept, a missing one makes
\* the constructor raise.
CarDetailsFields ==
    {"id", "brand", "model", "year", "type", "price_range", "features",
     "fuel_type", "availability"}

CarDetails(car) == [k \in CarDetailsFields |-> car[k]]

\* The response of a car endpoint for the cars it selected.
cars_response(cars) ==
    IF \A i \in DOMAIN cars : CarDetailsFields \subseteq DOMAIN cars[i]
    THEN [status |-> 200, cars |-> [i \in DOMAIN cars |-> CarDetails(cars[i])]]
    ELSE [status |-> 500, cars |-> <<>>]

\* `if s:` for an Optional[str]
truthy(s) == s # NoneStr /\ s # ""

\* GET /api/v1/cars
api_list_cars(car_type) ==
    cars_response(IF truthy(car_type) THEN search_cars_by_type(car_type)
                  ELSE get_available_cars)

ListCars ==
    \E car_type \in TypeQueries \cup {NoneStr} :
      /\ result' = [op |-> "list_cars", car_type |-> car_type,
                    status |-> api_list_cars(car_type).status,
                    value |-> api_list_cars(car_type).cars]
      /\ UNCHANGED <<data, bookings, now, chat_history, thr>>

\* The loop of search_cars_by_brand from car i on.
RECURSIVE brand_from(_, _, _)
brand_from(brand, i, results) ==
    IF i > Len(Inventory) THEN results
    ELSE brand_from(brand, i + 1,
            IF contains(lower(chars(brand)),
                        lower(chars(dict_get(Inventory[i], "brand", ""))))
            THEN Append(results, Inventory[i]) ELSE results)

search_cars_by_brand(brand) == brand_from(brand, 1, <<>>)

\* The requests POST /api/v1/cars/search is called with.  A budget that is
\* not given is 0 here: None and 0.0 take the same branch of the handler.
SearchRequests ==
    [ car_type : {NoneStr, "sedan", "suv"},
      brand : {NoneStr, "premium", "trail"},
      budget_min : {0}, budget_max : {0, 40000} ]

\* The budget step of search_cars: every car is kept.
budget_filter(results, request) ==
    IF request.budget_min # 0 \/ request.budget_max # 0
    THEN [i \in DOMAIN results |-> results[i]]
    ELSE results

\* POST /api/v1/cars/search
api_search_cars(request) ==
    cars_response(budget_filter(
        IF truthy(request.car_type)
        THEN search_cars_by_type(request.car_type)
        ELSE IF truthy(request.brand)
        THEN search_cars_by_brand(request.brand)
        ELSE get_available_cars, request))

SearchCars ==
    \E request \in SearchRequests :
      /\ result' = [op |-> "search_cars", request |-> request,
                    status |-> api_search_cars(request).status,
                    value |-> api_search_cars(request).cars]
      /\ UNCHANGED <<data, bookings, now, chat_history, thr>>

SearchCarsByType ==
    \E car_type \in TypeQueries :
      /\ result' = [op |-> "search_cars_by_type", car_type |-> car_type,
                    value |-> search_cars_by_type(car_type)]
      /\ UNCHANGED <<data, bookings, now, chat_history, thr>>

GetCarDetails ==
    \E car_id \in LookupIds :
      /\ result' = [op |-> "get_car_details", car_id |-> car_id,
                    value |-> get_car_details(car_id)]
      /\ UNCHANGED <<data, bookings, now, chat_history, thr>>

GetAvailableCars ==
    /\ result' = [op |-> "get_available_cars", value |-> get_available_cars]
    /\ UNCHANGED <<data, bookings, now, chat_history, thr>>

GetDealershipInfo ==
    /\ result' = [op |-> "get_dealership_info", value |-> get_dealership_info]
    /\ UNCHANGED <<data, bookings, now, chat_history, thr>>

(***************************************************************************)
(* Chat turns.  POST /api/v1/chat awaits process_text_async, which hands   *)
(* process_text to a worker thread; the turn runs the agent executor: it   *)
(* loads the buffer memory, follows the oracle through tool calls, and on  *)
(* the final answer saves the turn to the buffer memory.  The session tag  *)
(* of a turn records the session_id of the request it came with; the code  *)
(* keeps no such tag.                                                      *)
(***************************************************************************)
Idle == [pc |-> "idle"]

InTurn(t) == thr[t].pc = "turn"

TurnsInFlight == Cardinality({t \in Threads : InTurn(t)})

\* ConversationBufferMemory.save_context of one finished turn
save_context(history, session_id, input, output) ==
    history \o <<[role |-> "human", content |-> input, session |-> session_id],
                 [role |-> "ai", content |-> output, session |-> session_id]>>

Chat(t) ==
    \E session_id \in Sessions, message \in Messages :
      /\ thr[t].pc = "idle"
      /\ Len(chat_history) \div 2 + TurnsInFlight < MaxTurns
      /\ thr' = [thr EXCEPT ![t] =
                   [pc |-> "turn", session_id |-> session_id,
                    input |-> <<message>>, seen |-> chat_history, calls |-> 0,
                    obs |-> [tool |-> "none"]]]
      /\ UNCHANGED <<data, bookings, now, chat_history, result>>

\* The observation of a booking call as the turn keeps it: the outcome, and
\* for a booking made the slot it took.
booking_observation(out, car_id, date, time) ==
    IF out = "booked"
    THEN [tool |-> "book_test_drive", out |-> out, slot |-> <<car_id, date, time>>]
    ELSE [tool |-> "book_test_drive", out |-> out]

\* AgentExecutor's max_iterations: _setup_agent passes none, so the
\* executor keeps its default.  One iteration runs one tool call.
max_iterations == 15

\* The output of a turn the executor stopped (early_stopping_method "force").
StopMessage == <<"Agent stopped due to iteration limit or time limit.">>

BookWithin(t, budget) ==
    \E n \in Names, p \in Phones, c \in CarIds, d \in DateStrs, tm \in OracleTimes :
      LET r == tool_book_test_drive(n, p, c, d, tm)
      IN /\ InTurn(t)
         /\ thr[t].calls < budget
         /\ Len(r.ledger) <= MaxBookings
         /\ bookings' = r.ledger
         /\ thr' = [thr EXCEPT ![t].calls = @ + 1,
                               ![t].obs = booking_observation(r.out, c, d, tm)]
         /\ UNCHANGED <<data, now, chat_history, result>>

ToolBookTestDrive(t) == BookWithin(t, MaxToolCalls)

\* DealershipTools.check_availability: the sentence the oracle reads.
tool_check_availability(date, time) ==
    IF check_time_availability(date, time, now.day)
    THEN "is available for booking" ELSE "is not available"

CheckWithin(t, budget) ==
    \E d \in DateStrs, tm \in OracleTimes :
      /\ InTurn(t)
      /\ thr[t].calls < budget
      /\ thr' = [thr EXCEPT ![t].calls = @ + 1,
                            ![t].obs = [tool |-> "check_availability",
                                        out |-> tool_check_availability(d, tm)]]
      /\ UNCHANGED <<data, bookings, now, chat_history, result>>

ToolCheckAvailability(t) == CheckWithin(t, MaxToolCalls)

(***************************************************************************)
(* ConversationAgent.process_input.  `invoke` is what agent_executor.invoke *)
(* did: it raised an error, or it returned a response dict.                *)
(***************************************************************************)
Apology == "Sorry, I encountered an error: "
Rephrase == <<"I didn't understand that. Can you please rephrase?">>

\* process_input without its try/except.
process_input_uncaught(invoke) ==
    IF invoke.raised
    THEN [raised |-> TRUE, value |-> <<invoke.error>>]
    ELSE [raised |-> FALSE, value |-> dict_get(invoke.response, "output", Rephrase)]

process_input(invoke) ==
    IF invoke.raised
    THEN [raised |-> FALSE, value |-> <<Apology, invoke.error>>]
    ELSE [raised |-> FALSE, value |-> dict_get(invoke.response, "output", Rephrase)]

\* What process_text hands its caller, with the way the executor ended.
returned(how, invoke) ==
    [op |-> "process_text", how |-> how,
     raised |-> process_input(invoke).raised,
     value |-> process_input(invoke).value]

\* The executor consults the oracle while iterations are left.
should_continue(calls) == calls < max_iterations

\* The oracle gives its final answer: the executor saves the turn.
OracleAnswer(t) ==
    /\ InTurn(t)
    /\ should_continue(thr[t].calls)
    /\ chat_history' = save_context(chat_history, thr[t].session_id,
                                    thr[t].input, <<"answer">>)
    /\ thr' = [thr EXCEPT ![t] = Idle]
    /\ result' = returned("answer", [raised |-> FALSE,
                                     response |-> [output |-> <<"answer">>]])
    /\ UNCHANGED <<data, bookings, now>>

\* The oracle call raises: the executor saves nothing, process_input
\* returns the apology.
OracleFail(t) ==
    /\ InTurn(t)
    /\ should_continue(thr[t].calls)
    /\ thr' = [thr EXCEPT ![t] = Idle]
    /\ result' = returned("error", [raised |-> TRUE, error |-> "timeout"])
    /\ UNCHANGED <<data, bookings, now, chat_history>>

\* No iteration is left: the executor stops the turn with its own message
\* and saves it like any other output.
ForceStop(t) ==
    /\ InTurn(t)
    /\ ~should_continue(thr[t].calls)
    /\ chat_history' = save_context(chat_history, thr[t].session_id,
                                    thr[t].input, StopMessage)
    /\ thr' = [thr EXCEPT ![t] = Idle]
    /\ result' = returned("stopped", [raised |-> FALSE,
                                      response |-> [output |-> StopMessage]])
    /\ UNCHANGED <<data, bookings, now>>

\* The names DealershipTools.get_tools registers, and a name the oracle may
\* ask for that is none of them.
RegisteredTools ==
    {"search_car_by_type", "get_car_details", "list_available_cars",
     "check_availability", "get_dealership_info", "book_test_drive"}

RequestedUnknown == {"cancel_booking"}

\* A dispatch that raises for a name it does not know.
dispatch_strict(name) ==
    IF name \in RegisteredTools THEN "run" ELSE "raise"

\* The executor's lookup of the requested name among the tools it was
\* given: an unknown name is answered by the executor's invalid-tool
\* observation.
dispatch(name) ==
    IF name \in RegisteredTools THEN "run" ELSE "invalid_tool"

\* The oracle asks for a tool that is not registered.
UnknownWithin(t, budget) ==
    \E name \in RequestedUnknown :
      /\ InTurn(t)
      /\ thr[t].calls < budget
      /\ IF dispatch(name) = "raise"
         THEN /\ thr' = [thr EXCEPT ![t] = Idle]
              /\ result' = returned("error", [raised |-> TRUE, error |-> name])
         ELSE /\ thr' = [thr EXCEPT ![t].calls = @ + 1,
                                    ![t].obs = [tool |-> dispatch(name),
                                                out |-> name]]
              /\ UNCHANGED result
      /\ UNCHANGED <<data, bookings, now, chat_history>>

\* The thread of the turns that come one after the other.
Main == "w1"

(***************************************************************************)
(* Voice: the provider factories of voice_utils and the part of            *)
(* DealershipAssistant.__init__ that calls them.  `env` says which         *)
(* credentials the environment holds and whether pyttsx3 is installed.     *)
(* A provider object is named by its class; NoneStr is None.               *)
(***************************************************************************)
VoiceProviders == {"openai", "azure", "google", "local"}

Environments ==
    [ openai_key : BOOLEAN, azure_creds : BOOLEAN, google_creds : BOOLEAN,
      pyttsx3 : BOOLEAN ]

SpeechToTextClasses == {"OpenAISTT", "AzureSTT", "GoogleSTT", "LocalSTT"}
TextToSpeechClasses == {"OpenAITTS", "AzureTTS", "LocalTTS"}

get_stt_provider(provider, env) ==
    CASE provider = "openai" ->
           IF env.openai_key THEN [raised |-> FALSE, value |-> "OpenAISTT"]
           ELSE [raised |-> TRUE, value |-> NoneStr]
      [] provider = "azure" ->
           IF env.azure_creds THEN [raised |-> FALSE, value |-> "AzureSTT"]
           ELSE [raised |-> TRUE, value |-> NoneStr]
      [] provider = "google" ->
           IF env.google_creds THEN [raised |-> FALSE, value |-> "GoogleSTT"]
           ELSE [raised |-> TRUE, value |-> NoneStr]
      [] OTHER -> [raised |-> FALSE, value |-> "LocalSTT"]

get_tts_provider(provider, env) ==
    CASE provider = "openai" ->
           IF env.openai_key THEN [raised |-> FALSE, value |-> "OpenAITTS"]
           ELSE [raised |-> TRUE, value |-> NoneStr]
      [] provider = "azure" ->
           IF env.azure_creds THEN [raised |-> FALSE, value |-> "AzureTTS"]
           ELSE [raised |-> TRUE, value |-> NoneStr]
      [] provider = "google" ->
           IF env.google_creds THEN [raised |-> FALSE, value |-> "GoogleSTT"]
           ELSE [raised |-> TRUE, value |-> NoneStr]
      [] OTHER ->
           IF env.pyttsx3 THEN [raised |-> FALSE, value |-> "LocalTTS"]
           ELSE [raised |-> TRUE, value |-> NoneStr]

\* The voice fields __init__ leaves: stt is assigned before tts is asked
\* for, so it stays when only the second factory raises.
voice_init(use_voice, voice_provider, env) ==
    LET stt == get_stt_provider(voice_provider, env)
        tts == get_tts_provider(voice_provider, env)
    IN IF ~use_voice
       THEN [use_voice |-> FALSE, stt |-> NoneStr, tts |-> NoneStr]
       ELSE IF stt.raised
       THEN [use_voice |-> FALSE, stt |-> NoneStr, tts |-> NoneStr]
       ELSE IF tts.raised
       THEN [use_voice |-> FALSE, stt |-> stt.value, tts |-> NoneStr]
       ELSE [use_voice |-> TRUE, stt |-> stt.value, tts |-> tts.value]

\* run_voice_interaction up to its greeting: it returns at once without
\* voice; else it speaks through tts.speak_async, which only a
\* TextToSpeech has.
run_voice_interaction(assistant) ==
    IF ~assistant.use_voice \/ assistant.stt = NoneStr
          \/ assistant.tts = NoneStr
    THEN "returned"
    ELSE IF assistant.tts \in TextToSpeechClasses THEN "spoke"
    ELSE "AttributeError"

Construct ==
    \E use_voice \in BOOLEAN, voice_provider \in VoiceProviders,
       env \in Environments :
      LET v == voice_init(use_voice, voice_provider, env)
      IN /\ result' = [op |-> "DealershipAssistant", asked |-> use_voice,
                       voice_provider |-> voice_provider, env |-> env,
                       use_voice |-> v.use_voice, stt |-> v.stt,
                       tts |-> v.tts, outcome |-> "constructed"]
         /\ UNCHANGED <<data, bookings, now, chat_history, thr>>

RunVoiceInteraction ==
    /\ result.op \in {"DealershipAssistant", "run_voice_interaction"}
    /\ result' = [result EXCEPT !.op = "run_voice_interaction",
                                !.outcome = run_voice_interaction(result)]
    /\ UNCHANGED <<data, bookings, now, chat_history, thr>>

(***************************************************************************)
(* websocket_chat: the handler of one connection, a coroutine that         *)
(* receives a frame, has the assistant answer it, and sends the answer.    *)
(* `received` logs the frames taken off the socket, `sent` the responses   *)
(* put on it, each with the position of the frame it answers.              *)
(***************************************************************************)
Conn == "w2"
ClientId == "client_1"

\* What receive_json yields: a JSON object with a message, with an empty
\* message, without the key; a JSON value that is no object; or the
\* client's disconnect, which receive_json raises.
Frames ==
    { [kind |-> "object", json |-> [message |-> "hello"]],
      [kind |-> "object", json |-> [message |-> ""]],
      [kind |-> "object", json |-> [other |-> "x"]],
      [kind |-> "array"],
      [kind |-> "disconnect"] }

\* receive_json and data.get raise for these.
receive_raises(frame) == frame.kind # "object"

\* A handler that answers every frame, the empty ones too.
skips_never(message) == FALSE

\* `if not message: continue`
skips(message) == message = ""

\* await websocket.close(code=1011, ...), after the frames `received`.
closed(conn, received) ==
    [pc |-> "closed", close_code |-> 1011, received |-> received,
     sent |-> conn.sent, agent_calls |-> conn.agent_calls]

WsAccept ==
    /\ thr[Conn] = Idle
    /\ thr' = [thr EXCEPT ![Conn] =
                 [pc |-> "receive", received |-> <<>>, sent |-> <<>>,
                  agent_calls |-> 0, message |-> "", response |-> <<>>]]
    /\ UNCHANGED <<data, bookings, now, chat_history, result>>

WsReceive ==
    \E frame \in Frames :
      /\ thr[Conn].pc = "receive"
      /\ Len(thr[Conn].received) < MaxFrames
      /\ IF receive_raises(frame)
         THEN thr' = [thr EXCEPT ![Conn] =
                        closed(thr[Conn], Append(thr[Conn].received, frame))]
         ELSE LET message == dict_get(frame.json, "message", "")
              IN thr' = [thr EXCEPT
                           ![Conn].received = Append(@, frame),
                           ![Conn].message = message,
                           ![Conn].pc = IF skips(message) THEN "receive"
                                        ELSE "process"]
      /\ UNCHANGED <<data, bookings, now, chat_history, result>>

\* await assistant.process_text_async(message): the turn runs in a worker
\* thread and comes back with a reply, the apology when the oracle failed.
WsProcess ==
    \E oracle_fails \in BOOLEAN :
      LET invoke == IF oracle_fails
                    THEN [raised |-> TRUE, error |-> "timeout"]
                    ELSE [raised |-> FALSE,
                          response |-> [output |-> <<"answer">>]]
          reply == process_input(invoke)
      IN /\ thr[Conn].pc = "process"
         /\ chat_history' =
              IF oracle_fails THEN chat_history
              ELSE save_context(chat_history, ClientId,
                                <<thr[Conn].message>>, reply.value)
         /\ thr' = [thr EXCEPT
                      ![Conn].agent_calls = @ + 1,
                      ![Conn].response = reply.value,
                      ![Conn].pc = IF reply.raised THEN "closing" ELSE "send"]
         /\ UNCHANGED <<data, bookings, now, result>>

\* await websocket.send_json(...): sent, or it raises because the client
\* is gone; and the close a raised error ends in.
WsSend ==
    \E send_raises \in BOOLEAN :
      /\ thr[Conn].pc \in {"send", "closing"}
      /\ IF send_raises \/ thr[Conn].pc = "closing"
         THEN thr' = [thr EXCEPT ![Conn] =
                        closed(thr[Conn], thr[Conn].received)]
         ELSE thr' = [thr EXCEPT
                        ![Conn].sent =
                            Append(@, [response |-> thr[Conn].response,
                                       client_id |-> ClientId,
                                       answers |-> Len(thr[Conn].received)]),
                        ![Conn].pc = "receive"]
      /\ UNCHANGED <<data, bookings, now, chat_history, result>>

(***************************************************************************)
(* Spec: the operations called directly, one after the other, while time   *)
(* passes.  SpecChat: chat turns on concurrent worker threads, their steps *)
(* interleaved, at one instant of the clock.  A tool call is one step: the *)
(* tools read only the catalog and the clock and write the ledger by one   *)
(* list append.  SpecTurn: turns that come one after the other (the text   *)
(* interaction loop, or requests that do not overlap), each followed       *)
(* through as many tool calls as the executor runs.  SpecRead: the read   *)
(* operations of the knowledge base, between bookings and as time passes.  *)
(* SpecApi: the booking endpoints of the API alone.  SpecBook: the two      *)
(* ways a booking is stored outside a chat turn, the API and the booking    *)
(* agent.                                                                  *)
(* SpecWs: one WebSocket chat connection from accept to close.             *)
(* SpecVoice: the construction of the assistant's voice components and    *)
(* the start of the voice loop.                                            *)
(* SpecCars: the car endpoints of the API, between bookings.  SpecLoad:     *)
(* the construction of the knowledge base from a file, and the operations  *)
(* on what was loaded.                                                     *)
(***************************************************************************)
Next ==
    \/ Tick
    \/ CreateBooking
    \/ ConfirmBooking
    \/ GetBookings
    \/ ListBookings
    \/ CheckTimeAvailability

Spec == Init /\ [][Next]_vars

NextChat ==
    \/ \E t \in Threads : Chat(t)
    \/ \E t \in Threads : ToolBookTestDrive(t)
    \/ \E t \in Threads : ToolCheckAvailability(t)
    \/ \E t \in Threads : OracleAnswer(t)
    \/ \E t \in Threads : OracleFail(t)

SpecChat == Init /\ [][NextChat]_vars

NextTurn ==
    \/ Chat(Main)
    \/ BookWithin(Main, max_iterations)
    \/ CheckWithin(Main, max_iterations)
    \/ UnknownWithin(Main, max_iterations)
    \/ OracleAnswer(Main)
    \/ OracleFail(Main)
    \/ ForceStop(Main)

SpecTurn == Init /\ [][NextTurn]_vars

NextRead ==
    \/ Tick
    \/ CreateBooking
    \/ SearchCarsByType
    \/ GetCarDetails
    \/ GetAvailableCars
    \/ GetDealershipInfo
    \/ CheckTimeAvailability

SpecRead == Init /\ [][NextRead]_vars

NextWs ==
    \/ WsAccept
    \/ WsReceive
    \/ WsProcess
    \/ WsSend

SpecWs == Init /\ [][NextWs]_vars

NextVoice ==
    \/ Construct
    \/ RunVoiceInteraction

SpecVoice == Init /\ [][NextVoice]_vars

NextApi ==
    \/ Tick
    \/ CreateBooking
    \/ ListBookings

SpecApi == Init /\ [][NextApi]_vars

NextBook ==
    \/ Tick
    \/ CreateBooking
    \/ ConfirmBooking
    \/ ListBookings

SpecBook == Init /\ [][NextBook]_vars

NextCars ==
    \/ Tick
    \/ CreateBooking
    \/ ListCars
    \/ SearchCars

SpecCars == Init /\ [][NextCars]_vars

\* Before the assistant exists, and its construction from a file.
InitLoad ==
    /\ data = Unloaded
    /\ bookings = <<>>
    /\ now = [day |-> 0, sec |-> 0]
    /\ chat_history = <<>>
    /\ thr = [t \in Threads |-> Idle]
    /\ result = [op |-> "init"]

LoadInventory ==
    \E doc \in Documents :
      /\ data = Unloaded
      /\ data' = IF load_inventory(doc).raised THEN Unloaded
                 ELSE load_inventory(doc).data
      /\ result' = [op |-> "load_inventory", doc |-> doc.name,
                    raised |-> load_inventory(doc).raised]
      /\ UNCHANGED <<bookings, now, chat_history, thr>>

Loaded == data # Unloaded

NextLoad ==
    \/ LoadInventory
    \/ Loaded /\ Tick
    \/ Loaded /\ CreateBooking
    \/ Loaded /\ GetCarDetails
    \/ Loaded /\ SearchCarsByType

SpecLoad == InitLoad /\ [][NextLoad]_vars

(***************************************************************************)
(* The claims.                                                             *)
(***************************************************************************)
slot_of(b) == <<b.car_id, b.preferred_date, b.preferred_time>>

Confirmed == {i \in DOMAIN bookings : bookings[i].booking_status = "confirmed"}

\* C1: the ledger never holds two confirmed bookings of the same
\* (car_id, preferred_date, preferred_time); a second booking call for a
\* slot already booked adds nothing.
C1_NoDoubleBooking ==
    \A i, j \in Confirmed :
        i # j => slot_of(bookings[i]) # slot_of(bookings[j])

\* The turn of thread t has just made a booking through the tool.
HasBooked(t) ==
    /\ InTurn(t)
    /\ thr[t].obs.tool = "book_test_drive"
    /\ thr[t].obs.out = "booked"

\* C2: of the booking requests for one slot that run at the same time on
\* different worker threads, exactly one succeeds: no two turns in flight
\* have both booked the same slot.
C2_OneWinnerPerSlot ==
    \A t1, t2 \in Threads :
        (t1 # t2 /\ HasBooked(t1) /\ HasBooked(t2))
            => thr[t1].obs.slot # thr[t2].obs.slot

\* C3: the bookings of the ledger have pairwise distinct booking_id values,
\* also when two of them were made within the same second.
C3_UniqueBookingIds ==
    \A i, j \in DOMAIN bookings :
        i # j => bookings[i].booking_id # bookings[j].booking_id

\* The window rule: a date that parses, not before today and not more than
\* WindowDays after it.
InWindow(date_str, today) ==
    /\ ~raises_ValueError(date_str)
    /\ today <= fromisoformat(date_str)
    /\ fromisoformat(date_str) <= today + WindowDays

\* C4: whatever the ledger holds, the availability check is false for every
\* date before today and for every date more than 30 days after today, and
\* true for the dates from today to today + 30; the tool check_availability
\* says the same.
C4_WindowRule ==
    /\ result.op = "check_time_availability" =>
         /\ (~raises_ValueError(result.date)
             /\ fromisoformat(result.date) < result.today) => ~result.value
         /\ (~raises_ValueError(result.date)
             /\ fromisoformat(result.date) > result.today + WindowDays)
                => ~result.value
         /\ InWindow(result.date, result.today) => result.value
    /\ \A d \in DateStrs, tm \in Times :
         (tool_check_availability(d, tm) = "is available for booking")
            <=> InWindow(d, now.day)

\* C4 witness: with a booking in the ledger, a check of yesterday's date
\* has answered false.
C4_Witness ==
    /\ bookings # <<>>
    /\ result.op = "check_time_availability"
    /\ result.date = "2026-11-03"
    /\ result.today = 1
    /\ result.value = FALSE

\* Some confirmed booking of the ledger is for that date and time.
Occupied(date_str, time_str) ==
    \E i \in Confirmed :
        /\ bookings[i].preferred_date = date_str
        /\ bookings[i].preferred_time = time_str

\* C5: for a date inside the window the availability check of a slot is true
\* if and only if no confirmed booking occupies the slot, so once a slot is
\* booked its check is false.
C5_FreeIffUnbooked ==
    \A d \in DateStrs, tm \in Times :
        InWindow(d, now.day) =>
            (check_time_availability(d, tm, now.day) <=> ~Occupied(d, tm))

\* C6: every booking of the ledger passed the availability check of its own
\* date and time on the day it was made: none is for a past date, a date
\* beyond the window or a date that does not parse.
C6_BookingsPassedCheck ==
    \A i \in DOMAIN bookings :
        check_time_availability(bookings[i].preferred_date,
                                bookings[i].preferred_time,
                                bookings[i].booking_timestamp.day)

\* C7: every booking of the ledger names a car of the loaded inventory.
C7_BookingsNameCatalogCars ==
    \A i \in DOMAIN bookings : get_car_details(bookings[i].car_id) # None

\* C8: the ledger changes only by KnowledgeBase.book_test_drive appending a
\* booking, and what get_bookings hands its caller is not the stored list
\* itself.
C8_SoleMutationPath ==
    /\ [][bookings' # bookings =>
            /\ result'.op \in {"create_booking", "confirm_booking"}
            /\ bookings' = kb_book_test_drive(bookings,
                                              bookings'[Len(bookings')])]_vars
    /\ [](result.op = "get_bookings" => result.value # BookingsRef)

\* C9: a turn of one session is answered against turns of that session only
\* (the first turn of a session against an empty transcript).
C9_SessionsIndependent ==
    \A t \in Threads :
        InTurn(t) =>
            \A i \in DOMAIN thr[t].seen :
                thr[t].seen[i].session = thr[t].session_id

\* C10: two messages of the same session are never in their turns at the
\* same time.
C10_OneTurnPerSession ==
    \A t1, t2 \in Threads :
        (t1 # t2 /\ InTurn(t1) /\ InTurn(t2))
            => thr[t1].session_id # thr[t2].session_id

\* A turn of the main thread ends in this step.
TurnEnds == InTurn(Main) /\ ~InTurn(Main)'

\* C11: a failure of the oracle during a turn never leaves process_text as an
\* error: the call returns the apology string with the error's text, and the
\* assistant is left as it was before the turn (thread idle, transcript and
\* ledger untouched), so the next call is taken up normally.
C11_OracleFailureContained ==
    /\ [](result.op = "process_text" =>
            /\ ~result.raised
            /\ (result.how = "error" => result.value = <<Apology, "timeout">>))
    /\ [][(TurnEnds /\ result'.how = "error") =>
            /\ thr'[Main] = Idle
            /\ UNCHANGED <<chat_history, bookings, data>>]_vars

\* A call after a failed one is in its turn and has run a tool.
C11_Witness ==
    /\ result.op = "process_text" /\ result.how = "error"
    /\ InTurn(Main) /\ thr[Main].calls > 0

\* C12: the transcript only grows at its end, and every call of process_text
\* that returns a reply adds the user turn and the reply, in this order.
C12_TranscriptComplete ==
    /\ [][/\ Len(chat_history') >= Len(chat_history)
          /\ SubSeq(chat_history', 1, Len(chat_history)) = chat_history]_vars
    /\ [][TurnEnds =>
            chat_history' = chat_history \o
                <<[role |-> "human", content |-> thr[Main].input,
                   session |-> thr[Main].session_id],
                  [role |-> "ai", content |-> result'.value,
                   session |-> thr[Main].session_id]>>]_vars

\* C13: a turn runs at most six tool calls, and a turn that is stopped for
\* asking more ends with an apology.
C13_ToolBudget ==
    /\ InTurn(Main) => thr[Main].calls <= 6
    /\ (result.op = "process_text" /\ result.how = "stopped")
            => result.value[1] = Apology

\* The fields of a stored TestDriveBooking, and a booking that has them
\* all, the required ones filled.
BookingFields ==
    {"booking_id", "customer_name", "customer_phone", "customer_email",
     "car_model", "car_id", "preferred_date", "preferred_time",
     "test_drive_duration", "booking_status", "booking_timestamp"}

Complete(b) ==
    /\ DOMAIN b = BookingFields
    /\ \A k \in required_fields : b[k] # NoneStr

\* C14: a booking operation that fails or raises leaves the ledger exactly
\* as it was; the ledger changes only by gaining one complete booking at
\* its end, and every booking an observer lists is complete.
C14_AllOrNothing ==
    /\ [][(\/ result'.op = "create_booking" /\ result'.status # 200
           \/ result'.op = "confirm_booking" /\ ~result'.ok)
            => bookings' = bookings]_vars
    /\ [][bookings' # bookings =>
            /\ Len(bookings') = Len(bookings) + 1
            /\ SubSeq(bookings', 1, Len(bookings)) = bookings
            /\ Complete(bookings'[Len(bookings')])]_vars
    /\ [](\A i \in DOMAIN api_list_bookings.bookings :
            Complete(api_list_bookings.bookings[i]))
    /\ [](\A n \in Names, p \in Phones, c \in CarIds, d \in DateStrs,
            tm \in Times :
            tool_book_test_drive(n, p, c, d, tm).out # "booked"
                => tool_book_test_drive(n, p, c, d, tm).ledger = bookings)

\* A request refused for its time, on a ledger that holds a booking.
C14_Witness ==
    /\ result.op = "create_booking" /\ result.status = 400
    /\ Len(bookings) = 1

\* C15: a booking or an availability check for a date string that is no
\* date ends differently from one for a real date that is not available.
C15_InvalidDateDistinguished ==
    /\ (/\ result.op = "create_booking"
        /\ raises_ValueError(result.date)
        /\ get_car_details(result.car_id) # None)
         => \A req \in BookingRequests :
              (/\ ~raises_ValueError(req.preferred_date)
               /\ api_create_booking(req).status = 400)
                => <<api_create_booking(req).status,
                     api_create_booking(req).detail>>
                        # <<result.status, result.detail>>
    /\ (/\ result.op = "check_time_availability"
        /\ raises_ValueError(result.date))
         => \A d \in DateStrs :
              (/\ ~raises_ValueError(d)
               /\ ~check_time_availability(d, result.time, result.today))
                => check_time_availability(d, result.time, result.today)
                        # result.value

\* C16: a booking request for a car the inventory lacks ends as not found
\* (404 'Car not found'; the tool's car-not-found answer) whatever its date
\* and time are, and leaves the ledger as it was.
C16_UnknownCarNotFound ==
    /\ [][(/\ result'.op = "create_booking"
           /\ get_car_details(result'.car_id) = None)
            => /\ result'.status = 404
               /\ result'.detail = CarNotFound
               /\ bookings' = bookings]_vars
    /\ [](\A n \in Names, p \in Phones, c \in CarIds, d \in DateStrs,
            tm \in Times :
            get_car_details(c) = None
                => tool_book_test_drive(n, p, c, d, tm)
                      = [out |-> "car_not_found", ledger |-> bookings])

\* An unknown car asked for on a date that is no date: not found, not
\* unavailable.
C16_Witness ==
    /\ result.op = "create_booking"
    /\ result.car_id = "car_999" /\ result.date = "tomorrow"
    /\ result.status = 404
    /\ Len(bookings) = 1

\* Two characters that are the same letter, whatever their case.
SameLetter(a, b) ==
    \/ a = b
    \/ a \in DOMAIN UpperToLower /\ UpperToLower[a] = b
    \/ b \in DOMAIN UpperToLower /\ UpperToLower[b] = a

\* The type of `car` holds `t` somewhere, letter for letter.
TypeHolds(car, t) ==
    LET ty == chars(IF "type" \in DOMAIN car THEN car.type ELSE "")
        q == chars(t)
    IN \E off \in 0..(Len(ty) - Len(q)) :
         \A i \in 1..Len(q) : SameLetter(ty[off + i], q[i])

\* C17: search_cars_by_type(t) returns, in the order of the catalog, exactly
\* the cars whose type holds t whatever the case of the letters; for a type
\* no car has it returns the empty list.
C17_SearchByType ==
    (result.op = "search_cars_by_type") =>
        /\ result.value = SelectSeq(Inventory,
                            LAMBDA car : TypeHolds(car, result.car_type))
        /\ result.car_type = "truck" => result.value = <<>>
        /\ result.car_type \in {"suv", "SUV"} => result.value = <<Inventory[2]>>
        /\ result.car_type \in {"sedan", "SEDAN"}
              => result.value = <<Inventory[1], Inventory[3]>>

\* A search in capitals that found the two sedans.
C17_Witness ==
    /\ result.op = "search_cars_by_type" /\ result.car_type = "SEDAN"
    /\ Len(result.value) = 2

\* C18: get_car_details of the id of a car of the inventory returns that
\* car, and of an id no car has it returns None.
C18_LookupRoundTrip ==
    /\ \A i \in DOMAIN Inventory :
         get_car_details(Inventory[i].id) = Inventory[i]
    /\ (result.op = "get_car_details") =>
         IF \E i \in DOMAIN Inventory : Inventory[i].id = result.car_id
         THEN \E i \in DOMAIN Inventory :
                /\ Inventory[i].id = result.car_id
                /\ result.value = Inventory[i]
         ELSE result.value = None

\* The last car of the inventory was looked up and came back.
C18_Witness ==
    /\ result.op = "get_car_details" /\ result.car_id = "sport_001"
    /\ result.value = Inventory[3]

\* What GET /api/v1/bookings lists.
Listed == api_list_bookings.bookings

\* C19: the list of bookings after a step is the list before it, or that
\* list with one booking added at its end; the bookings stand in the order
\* of their creation, and each has the status 'confirmed'.
C19_AppendOnlyLedger ==
    /\ [][\/ Listed' = Listed
          \/ /\ Len(Listed') = Len(Listed) + 1
             /\ SubSeq(Listed', 1, Len(Listed)) = Listed]_vars
    /\ [](contents_of(get_bookings) = Listed)
    /\ [](\A i, j \in DOMAIN Listed :
            i < j => Listed[i].booking_timestamp.sec
                        <= Listed[j].booking_timestamp.sec)
    /\ [](\A i \in DOMAIN Listed : Listed[i].booking_status = "confirmed")

\* Two different bookings were made and then listed.
C19_Witness ==
    /\ Len(bookings) = 2 /\ bookings[1] # bookings[2]
    /\ result.op = "list_bookings" /\ result.count = 2

\* The read operations, and the same call made again in the current state.
ReadOps ==
    {"search_cars_by_type", "get_car_details", "get_available_cars",
     "get_dealership_info", "check_time_availability"}

ReadAgain(r) ==
    CASE r.op = "search_cars_by_type" -> search_cars_by_type(r.car_type)
      [] r.op = "get_car_details" -> get_car_details(r.car_id)
      [] r.op = "get_available_cars" -> get_available_cars
      [] r.op = "get_dealership_info" -> get_dealership_info
      [] r.op = "check_time_availability" ->
            check_time_availability(r.date, r.time, now.day)

\* C20: as long as no booking is made and the date is the same, a read
\* operation called again with the same arguments returns what it returned
\* before, and no read operation changes the inventory or the ledger.
C20_ReadsIdempotent ==
    /\ []((/\ result.op \in ReadOps
           /\ result.op = "check_time_availability" => result.today = now.day)
            => ReadAgain(result) = result.value)
    /\ [][(result'.op \in ReadOps /\ result' # result)
            => UNCHANGED <<data, bookings>>]_vars

\* A slot found free, on a ledger that holds a booking, the clock having
\* moved within the day.
C20_Witness ==
    /\ result.op = "check_time_availability" /\ result.value
    /\ result.today = now.day /\ now.sec > 0
    /\ Len(bookings) = 1

\* The document of that name.
DocNamed(name) == CHOOSE doc \in Documents : doc.name = name

\* A file that is there, is JSON, and has the dealership, the working hours
\* and a vehicle list whose cars have the fields the program reads.
CarFields ==
    {"id", "brand", "model", "year", "type", "price_range", "features",
     "fuel_type", "availability"}

WellFormed(doc) ==
    /\ doc.exists /\ doc.parses
    /\ {"dealership", "working_hours", "inventory"} \subseteq DOMAIN doc.json
    /\ \A i \in DOMAIN doc.json.inventory :
         CarFields \subseteq DOMAIN doc.json.inventory[i]

\* C21: constructing the store fails exactly when the file is missing or
\* malformed, and on a store that was constructed no request fails for a
\* defect of the catalog.
C21_FailFastLoad ==
    /\ result.op = "load_inventory"
          => (result.raised <=> ~WellFormed(DocNamed(result.doc)))
    /\ result.op = "create_booking" => result.status # 500

\* C22: no operation changes what was loaded: the vehicle list, the fields
\* of a vehicle (its availability flag among them), the dealership profile.
C22_InventoryImmutable ==
    /\ [][data' = data]_vars
    /\ [](/\ Inventory = Catalog.inventory
          /\ get_dealership_info.name = Catalog.dealership.name
          /\ get_available_cars = <<Catalog.inventory[1], Catalog.inventory[3]>>)

\* Two bookings of the sedan were made, and it is still on offer.
C22_Witness ==
    /\ result.op = "create_booking" /\ result.status = 200
    /\ result.car_id = "sedan_001"
    /\ Len(bookings) = 2
    /\ get_car_details("sedan_001").availability

CarriesRequest(b, car, name, phone, car_id, date, time) ==
    /\ b.customer_name = name /\ b.customer_phone = phone
    /\ b.car_id = car_id
    /\ b.preferred_date = date /\ b.preferred_time = time
    /\ b.car_model = <<car.brand, " ", car.model>>
    /\ b.test_drive_duration =
         (IF "test_drive_duration_minutes" \in DOMAIN car
          THEN car.test_drive_duration_minutes ELSE 60)
    /\ car_id = "sedan_001" => b.test_drive_duration = 30
    /\ car_id = "suv_001" => b.test_drive_duration = 60
    /\ b.booking_status = "confirmed"

AppendsOne(ledger) ==
    /\ Len(ledger) = Len(bookings) + 1
    /\ SubSeq(ledger, 1, Len(bookings)) = bookings

\* C24: a request for a car of the inventory, a free slot and a date inside
\* the window is accepted by the API and by the tool, and appends exactly
\* one booking that carries the request, the car's label and duration, and
\* the status 'confirmed'.
C24_BookingCarriesRequest ==
    \A request \in BookingRequests :
      LET car == get_car_details(request.car_id)
          r == api_create_booking(request)
          t == tool_book_test_drive(request.customer_name,
                   request.customer_phone, request.car_id,
                   request.preferred_date, request.preferred_time)
      IN (/\ car # None
          /\ InWindow(request.preferred_date, now.day)
          /\ ~Occupied(request.preferred_date, request.preferred_time))
          => /\ r.status = 200
             /\ AppendsOne(r.ledger)
             /\ CarriesRequest(r.ledger[Len(r.ledger)], car,
                    request.customer_name, request.customer_phone,
                    request.car_id, request.preferred_date,
                    request.preferred_time)
             /\ t.out = "booked"
             /\ AppendsOne(t.ledger)
             /\ CarriesRequest(t.ledger[Len(t.ledger)], car,
                    request.customer_name, request.customer_phone,
                    request.car_id, request.preferred_date,
                    request.preferred_time)

\* The sedan was booked on a ledger that held a booking of another time.
C24_Witness ==
    /\ result.op = "create_booking" /\ result.status = 200
    /\ result.car_id = "sedan_001"
    /\ Len(bookings) = 2
    /\ bookings[1].preferred_time # bookings[2].preferred_time
    /\ bookings[2].car_id = "sedan_001"
    /\ bookings[2].test_drive_duration = 30

\* C25: every car GET /api/v1/cars returns has its availability flag set,
\* with a car_type filter and without one.
C25_ListedCarsAvailable ==
    (result.op = "list_cars") =>
        \A i \in DOMAIN result.value : result.value[i].availability

\* The brand of `car` holds `b` somewhere, letter for letter.
BrandHolds(car, b) ==
    LET br == chars(car.brand)
        q == chars(b)
    IN \E off \in 0..(Len(br) - Len(q)) :
         \A i \in 1..Len(q) : SameLetter(br[off + i], q[i])

\* The price a price_range string states.
price_of(car) ==
    CASE car.price_range = "$35,000" -> 35000
      [] car.price_range = "$45,000" -> 45000
      [] car.price_range = "$55,000" -> 55000

\* C26: every car POST /api/v1/cars/search returns meets each criterion of
\* the request: the type if one is given, the brand if one is given, the
\* budget if one is given.
C26_SearchMeetsAllCriteria ==
    (result.op = "search_cars") =>
        \A i \in DOMAIN result.value :
            /\ result.request.car_type # NoneStr
                  => TypeHolds(result.value[i], result.request.car_type)
            /\ result.request.brand # NoneStr
                  => BrandHolds(result.value[i], result.request.brand)
            /\ result.request.budget_max # 0
                  => price_of(result.value[i]) <= result.request.budget_max

\* The fields on which bookings of the two entry points are compared.
SameBooking(a, b) ==
    /\ a.car_id = b.car_id /\ a.car_model = b.car_model
    /\ a.preferred_date = b.preferred_date
    /\ a.preferred_time = b.preferred_time
    /\ a.test_drive_duration = b.test_drive_duration
    /\ a.booking_status = b.booking_status

\* C27: for every ledger and every request the book_test_drive tool and
\* POST /api/v1/bookings both reject or both accept, and when they accept
\* the bookings they append agree on car, label, date, time, duration and
\* status.
C27_EntryPointsAgree ==
    \A request \in BookingRequests :
      LET r == api_create_booking(request)
          t == tool_book_test_drive(request.customer_name,
                   request.customer_phone, request.car_id,
                   request.preferred_date, request.preferred_time)
      IN /\ (r.status = 200) <=> (t.out = "booked")
         /\ (r.status = 404) <=> (t.out = "car_not_found")
         /\ (r.status = 200) =>
              /\ Len(r.ledger) = Len(t.ledger)
              /\ SameBooking(r.ledger[Len(r.ledger)], t.ledger[Len(t.ledger)])
         /\ (r.status # 200) => r.ledger = bookings /\ t.ledger = bookings

\* The API has refused a known car for its date, on a ledger with a booking.
C27_Witness ==
    /\ result.op = "create_booking" /\ result.status = 400
    /\ result.car_id = "suv_001" /\ result.date = "2026-12-04"
    /\ Len(bookings) = 1
    /\ now.sec = 0

\* The assistant was asked for voice and a factory raised.
InitFailed(r) ==
    r.asked /\ (\/ get_stt_provider(r.voice_provider, r.env).raised
                \/ get_tts_provider(r.voice_provider, r.env).raised)

\* C28: for every provider, a constructed assistant has use_voice set only
\* with a speech-to-text stt and a text-to-speech tts; when a factory
\* raised, use_voice is off and run_voice_interaction returns at once.
C28_VoiceComponents ==
    (result.op \in {"DealershipAssistant", "run_voice_interaction"}) =>
        /\ result.use_voice
              => /\ result.stt \in SpeechToTextClasses
                 /\ result.tts \in TextToSpeechClasses
        /\ InitFailed(result) => ~result.use_voice
        /\ (InitFailed(result) /\ result.op = "run_voice_interaction")
              => result.outcome = "returned"

\* The positions of the received frames that carry a non-empty message.
NonEmpty(received) ==
    {i \in DOMAIN received :
        /\ received[i].kind = "object"
        /\ "message" \in DOMAIN received[i].json
        /\ received[i].json.message # ""}

\* The k-th of them.
KthNonEmpty(received, k) ==
    CHOOSE p \in NonEmpty(received) :
        Cardinality({q \in NonEmpty(received) : q <= p}) = k

\* C29: on a connection, the responses sent answer the non-empty messages
\* received, one each and in their order; the agent is called for those
\* messages only; and a frame that makes receiving fail, like a failed
\* send, ends the connection with close code 1011.
C29_WebSocketOrder ==
    /\ [](thr[Conn].pc # "idle" =>
            LET c == thr[Conn]
                n == Cardinality(NonEmpty(c.received))
            IN /\ Len(c.sent) <= n
               /\ \A k \in DOMAIN c.sent :
                    c.sent[k].answers = KthNonEmpty(c.received, k)
               /\ c.pc = "receive" => Len(c.sent) = n /\ c.agent_calls = n
               /\ c.pc \in {"process"} => c.agent_calls = n - 1
               /\ c.agent_calls <= n
               /\ c.pc = "closed" => c.close_code = 1011)
    /\ [][(/\ thr[Conn].pc = "receive"
           /\ thr'[Conn] # thr[Conn]
           /\ receive_raises(thr'[Conn].received[Len(thr'[Conn].received)]))
            => thr'[Conn].pc = "closed"]_vars

\* Three frames, the second one empty, two responses sent, still open.
C29_Witness ==
    /\ thr[Conn].pc = "receive"
    /\ Len(thr[Conn].received) = 3
    /\ NonEmpty(thr[Conn].received) = {1, 3}
    /\ Len(thr[Conn].sent) = 2
====
